---------------------------- MODULE Spec2Model ----------------------------
(***************************************************************************)
(* WACC calculator: wacc_module.calculate_wacc, wacc_function.calculate_wacc *)
(* (with calculate_cost_of_equity) and the calculation section of app.py.   *)
(*                                                                         *)
(* Numbers.  Python floats are modelled by exact rationals [n, d] in lowest *)
(* terms with d > 0.  The record [n |-> 0, d |-> 0] stands for Python's     *)
(* None (and for "no value").  Sums, products and quotients are exact.     *)
(* round(x, ndigits) depends on the binary value of the float only when    *)
(* the exact value is a decimal tie.  For the weights value / total_value  *)
(* of wacc_module (integer market values) the side of the tie the float    *)
(* lies on is computed by binary64 long division (FloatErrSign).  For      *)
(* wacc * 100 an exact tie is resolved to the even neighbour; there the    *)
(* float of the program may lie on either side of the tie.                 *)
(***************************************************************************)
EXTENDS Integers, Sequences, FiniteSets

VARIABLES
    entry,            \* "lib": a call of the two library functions; "app": a run of app.py
    args,             \* the arguments of the library call
    module_result,    \* outcome of wacc_module.calculate_wacc(args)
    function_result,  \* outcome of wacc_function.calculate_wacc(args)
    widgets,          \* the sidebar inputs of app.py
    app_pc,           \* "idle", "ready" (inputs set, script not run), "done"
    app               \* the values app.py computed (lines 137-161)

vars == <<entry, args, module_result, function_result, widgets, app_pc, app>>

---------------------------------------------------------------------------
(* Exact rational arithmetic standing for Python float arithmetic.         *)

Abs(x) == IF x < 0 THEN -x ELSE x

RECURSIVE GCD(_, _)
GCD(a, b) == IF b = 0 THEN a ELSE GCD(b, a % b)

\* The rational n/d (d # 0) in lowest terms with a positive denominator.
Rat(n, d) ==
    LET g == GCD(Abs(n), Abs(d))
        s == IF d < 0 THEN -1 ELSE 1
    IN  [n |-> (s * n) \div g, d |-> (s * d) \div g]

\* Python's None.
None == [n |-> 0, d |-> 0]

IsNum(x) == x.d > 0

Int2Rat(k) == [n |-> k, d |-> 1]

\* The decimal literal k / 10^places, e.g. Dec(55, 3) is 0.055.
Dec(k, places) == Rat(k, 10 ^ places)

RAdd(x, y) ==
    LET g == GCD(x.d, y.d)
    IN  Rat(x.n * (y.d \div g) + y.n * (x.d \div g), (x.d \div g) * y.d)

RNeg(x) == [n |-> -x.n, d |-> x.d]

RSub(x, y) == RAdd(x, RNeg(y))

RMul(x, y) ==
    LET g1 == GCD(Abs(x.n), y.d)
        g2 == GCD(Abs(y.n), x.d)
    IN  IF x.n = 0 \/ y.n = 0 THEN Int2Rat(0)
        ELSE Rat((x.n \div g1) * (y.n \div g2), (x.d \div g2) * (y.d \div g1))

\* x / y for y # 0 (the callers raise ZeroDivisionError before dividing by 0).
RDiv(x, y) == RMul(x, Rat(y.d, y.n))

\* x <= y: by the integer parts, and by the fractional parts when those agree.
RLe(x, y) ==
    LET fx == x.n \div x.d
        fy == y.n \div y.d
    IN  IF fx # fy THEN fx < fy
        ELSE (x.n % x.d) * y.d <= (y.n % y.d) * x.d

RLt(x, y) == ~RLe(y, x)

RMin(x, y) == IF RLe(x, y) THEN x ELSE y

RMax(x, y) == IF RLe(x, y) THEN y ELSE x

---------------------------------------------------------------------------
(* binary64 division: the sign of fl(a/b) - a/b for integers a, b, b # 0.  *)

RECURSIVE ScaleNum(_, _)
ScaleNum(a, b) == IF a >= b THEN a ELSE ScaleNum(2 * a, b)

RECURSIVE ScaleDen(_, _)
ScaleDen(a, b) == IF a < 2 * b THEN b ELSE ScaleDen(a, 2 * b)

\* k further quotient bits of r/b (r < b): <<remainder, last bit>>.
RECURSIVE DivBits(_, _, _, _)
DivBits(r, b, k, last) ==
    IF k = 0 THEN <<r, last>>
    ELSE IF 2 * r >= b THEN DivBits(2 * r - b, b, k - 1, 1)
         ELSE DivBits(2 * r, b, k - 1, 0)

\* Round-to-nearest-even of a 53-bit significand: the leading bit and 52 more.
FloatErrSignPos(a, b) ==
    LET a1 == ScaleNum(a, b)
        b1 == ScaleDen(a1, b)
        res == DivBits(a1 - b1, b1, 52, 1)
        r == res[1]
    IN  IF r = 0 THEN 0
        ELSE IF 2 * r > b1 THEN 1
        ELSE IF 2 * r < b1 THEN -1
        ELSE IF res[2] = 1 THEN 1 ELSE -1

FloatErrSign(a, b) ==
    IF a = 0 THEN 0
    ELSE IF (a < 0) = (b < 0) THEN FloatErrSignPos(Abs(a), Abs(b))
    ELSE -FloatErrSignPos(Abs(a), Abs(b))

---------------------------------------------------------------------------
(* Python's round(x, ndigits) on a float: the decimal nearest to the       *)
(* float's binary value.  x is the exact value the float stands for and    *)
(* err the sign of (float - x); when x is an exact decimal tie the float   *)
(* lies on the side err says, and is the tie itself (rounded to even) when *)
(* err = 0.                                                                *)

round(x, ndigits, err) ==
    LET s == RMul(x, Int2Rat(10 ^ ndigits))
        fl == s.n \div s.d
        r == s.n % s.d
        up == IF 2 * r > s.d THEN TRUE
              ELSE IF 2 * r < s.d THEN FALSE
              ELSE IF err > 0 THEN TRUE
              ELSE IF err < 0 THEN FALSE
              ELSE fl % 2 = 1
    IN  Rat(IF up THEN fl + 1 ELSE fl, 10 ^ ndigits)

One == Int2Rat(1)

Hundred == Int2Rat(100)

---------------------------------------------------------------------------
(* Outcomes of a call: "pending" (not called yet), "returned", "raised".   *)

Pending == [status |-> "pending", error |-> "", value |-> None]

Zero == Int2Rat(0)

Returned(v) == [status |-> "returned", error |-> "", value |-> v]

Raised(e) == [status |-> "raised", error |-> e, value |-> None]

---------------------------------------------------------------------------
(* wacc_module.py                                                          *)

NoWeights ==
    [equity_value |-> 0, debt_value |-> 0, cost_of_equity |-> None,
     cost_of_debt |-> None, tax_rate |-> None,
     equity_weight |-> None, debt_weight |-> None, wacc_percent |-> None]

\* Mutant of module_calculate_wacc: the equity term is not weighted by w_e.
module_calculate_wacc_unweighted_equity(equity_value, debt_value, cost_of_equity, cost_of_debt, tax_rate) ==
    LET total_value == equity_value + debt_value
    IN  IF total_value = 0
        THEN [status |-> "raised", error |-> "ValueError", value |-> NoWeights]
        ELSE LET w_e == Rat(equity_value, total_value)
                 w_d == Rat(debt_value, total_value)
                 wacc == RAdd(cost_of_equity,
                              RMul(RMul(w_d, cost_of_debt), RSub(One, tax_rate)))
             IN  [status |-> "returned", error |-> "",
                  value |->
                    [equity_value |-> equity_value,
                     debt_value |-> debt_value,
                     cost_of_equity |-> cost_of_equity,
                     cost_of_debt |-> cost_of_debt,
                     tax_rate |-> tax_rate,
                     equity_weight |->
                        round(w_e, 4, FloatErrSign(equity_value, total_value)),
                     debt_weight |->
                        round(w_d, 4, FloatErrSign(debt_value, total_value)),
                     wacc_percent |-> round(RMul(wacc, Hundred), 2, 0)]]

\* Mutant of module_calculate_wacc: wacc_percent rounded to 4 decimals, not 2.
module_calculate_wacc_round4(equity_value, debt_value, cost_of_equity, cost_of_debt, tax_rate) ==
    LET total_value == equity_value + debt_value
    IN  IF total_value = 0
        THEN [status |-> "raised", error |-> "ValueError", value |-> NoWeights]
        ELSE LET w_e == Rat(equity_value, total_value)
                 w_d == Rat(debt_value, total_value)
                 wacc == RAdd(RMul(w_e, cost_of_equity),
                              RMul(RMul(w_d, cost_of_debt), RSub(One, tax_rate)))
             IN  [status |-> "returned", error |-> "",
                  value |->
                    [equity_value |-> equity_value,
                     debt_value |-> debt_value,
                     cost_of_equity |-> cost_of_equity,
                     cost_of_debt |-> cost_of_debt,
                     tax_rate |-> tax_rate,
                     equity_weight |->
                        round(w_e, 4, FloatErrSign(equity_value, total_value)),
                     debt_weight |->
                        round(w_d, 4, FloatErrSign(debt_value, total_value)),
                     wacc_percent |-> round(RMul(wacc, Hundred), 4, 0)]]

module_calculate_wacc(equity_value, debt_value, cost_of_equity, cost_of_debt, tax_rate) ==
    LET total_value == equity_value + debt_value
    IN  IF total_value = 0
        THEN [status |-> "raised", error |-> "ValueError", value |-> NoWeights]
        ELSE LET w_e == Rat(equity_value, total_value)
                 w_d == Rat(debt_value, total_value)
                 wacc == RAdd(RMul(w_e, cost_of_equity),
                              RMul(RMul(w_d, cost_of_debt), RSub(One, tax_rate)))
             IN  [status |-> "returned", error |-> "",
                  value |->
                    [equity_value |-> equity_value,
                     debt_value |-> debt_value,
                     cost_of_equity |-> cost_of_equity,
                     cost_of_debt |-> cost_of_debt,
                     tax_rate |-> tax_rate,
                     equity_weight |->
                        round(w_e, 4, FloatErrSign(equity_value, total_value)),
                     debt_weight |->
                        round(w_d, 4, FloatErrSign(debt_value, total_value)),
                     wacc_percent |-> round(RMul(wacc, Hundred), 2, 0)]]

---------------------------------------------------------------------------
(* wacc_function.py                                                        *)

\* Mutant of calculate_cost_of_equity: CAPM adds beta times the market return
\* instead of beta times the premium over the risk-free rate.
calculate_cost_of_equity_capm_no_premium(method, kwargs) ==
    IF method = "direct" THEN Returned(kwargs.cost_of_equity)
    ELSE IF method = "capm"
    THEN Returned(RAdd(kwargs.risk_free_rate,
                       RMul(kwargs.beta, kwargs.market_return)))
    ELSE IF method = "gordon"
    THEN IF kwargs.price_now.n = 0
         THEN Raised("ZeroDivisionError")
         ELSE Returned(RAdd(RDiv(kwargs.dividend_next, kwargs.price_now),
                            kwargs.growth_rate))
    ELSE Raised("ValueError")

\* Mutant of calculate_cost_of_equity: a zero price drops the dividend yield
\* and the growth rate alone is returned.
calculate_cost_of_equity_zero_price_skipped(method, kwargs) ==
    IF method = "direct" THEN Returned(kwargs.cost_of_equity)
    ELSE IF method = "capm"
    THEN Returned(RAdd(kwargs.risk_free_rate,
                       RMul(kwargs.beta,
                            RSub(kwargs.market_return, kwargs.risk_free_rate))))
    ELSE IF method = "gordon"
    THEN IF kwargs.price_now.n = 0
         THEN Returned(kwargs.growth_rate)
         ELSE Returned(RAdd(RDiv(kwargs.dividend_next, kwargs.price_now),
                            kwargs.growth_rate))
    ELSE Raised("ValueError")

calculate_cost_of_equity(method, kwargs) ==
    IF method = "direct" THEN Returned(kwargs.cost_of_equity)
    ELSE IF method = "capm"
    THEN Returned(RAdd(kwargs.risk_free_rate,
                       RMul(kwargs.beta,
                            RSub(kwargs.market_return, kwargs.risk_free_rate))))
    ELSE IF method = "gordon"
    THEN IF kwargs.price_now.n = 0
         THEN Raised("ZeroDivisionError")
         ELSE Returned(RAdd(RDiv(kwargs.dividend_next, kwargs.price_now),
                            kwargs.growth_rate))
    ELSE Raised("ValueError")

\* Mutant of function_calculate_wacc: the debt term lacks (1 - tax_rate).
function_calculate_wacc_no_tax(a) ==
    LET ke == calculate_cost_of_equity(a.equity_method, a)
        total_value == a.equity_value + a.debt_value
    IN  IF ke.status = "raised" THEN ke
        ELSE IF total_value = 0 THEN Raised("ZeroDivisionError")
        ELSE LET w_e == Rat(a.equity_value, total_value)
                 w_d == Rat(a.debt_value, total_value)
                 wacc == RAdd(RMul(w_e, ke.value), RMul(w_d, a.cost_of_debt))
             IN  Returned(round(RMul(wacc, Hundred), 2, 0))

function_calculate_wacc(a) ==
    LET ke == calculate_cost_of_equity(a.equity_method, a)
        total_value == a.equity_value + a.debt_value
    IN  IF ke.status = "raised" THEN ke
        ELSE IF total_value = 0 THEN Raised("ZeroDivisionError")
        ELSE LET w_e == Rat(a.equity_value, total_value)
                 w_d == Rat(a.debt_value, total_value)
                 wacc == RAdd(RMul(w_e, ke.value),
                              RMul(RMul(w_d, a.cost_of_debt),
                                   RSub(One, a.tax_rate)))
             IN  Returned(round(RMul(wacc, Hundred), 2, 0))

ModulePending == [status |-> "pending", error |-> "", value |-> NoWeights]

---------------------------------------------------------------------------
(* app.py: the calculation section (lines 86-95 and 109-161).  All rates   *)
(* of app.py are percentages.                                              *)

\* pd.to_numeric(errors="coerce").fillna(0.0) on one cell (None: a missing cell).
to_numeric_fillna(cell) == IF IsNum(cell) THEN cell ELSE Zero

\* df["Tax shield?"].fillna(True) on one cell, then its truth value.
shield_fillna(cell) == IF cell = "NA" THEN TRUE ELSE cell = "True"

RECURSIVE SumMarketValue(_)
SumMarketValue(rows) ==
    IF rows = <<>> THEN Zero
    ELSE RAdd(to_numeric_fillna(Head(rows).mv), SumMarketValue(Tail(rows)))

\* (df["weight"] * df["Rate (%)"]).sum()
RECURSIVE SumPreTax(_, _)
SumPreTax(rows, total) ==
    IF rows = <<>> THEN Zero
    ELSE RAdd(RMul(RDiv(to_numeric_fillna(Head(rows).mv), total),
                   to_numeric_fillna(Head(rows).rate)),
              SumPreTax(Tail(rows), total))

\* Mutant of tax_shield_factor: the shield is given to every row.
tax_shield_factor_every_row(row, tax_rate_pct) ==
    RSub(One, RDiv(tax_rate_pct, Hundred))

\* np.where(df["Tax shield?"].values, (1 - tax_rate_pct / 100.0), 1.0) for one row
tax_shield_factor(row, tax_rate_pct) ==
    IF shield_fillna(row.shield) THEN RSub(One, RDiv(tax_rate_pct, Hundred)) ELSE One

\* (df["weight"] * df["Rate (%)"] * tax_shield_factor).sum()
RECURSIVE SumAfterTax(_, _, _)
SumAfterTax(rows, total, tax_rate_pct) ==
    IF rows = <<>> THEN Zero
    ELSE RAdd(RMul(RMul(RDiv(to_numeric_fillna(Head(rows).mv), total),
                        to_numeric_fillna(Head(rows).rate)),
                   tax_shield_factor(Head(rows), tax_rate_pct)),
              SumAfterTax(Tail(rows), total, tax_rate_pct))

NoBlend == [pre_tax_kd |-> Zero, after_tax_kd |-> Zero, total |-> Zero]

compute_weighted_kd_from_tranches(df, tax_rate_pct) ==
    IF df.none \/ df.rows = <<>> THEN NoBlend
    ELSE LET total == SumMarketValue(df.rows)
         IN  IF RLe(total, Zero) THEN NoBlend
             ELSE [pre_tax_kd |-> SumPreTax(df.rows, total),
                   after_tax_kd |-> SumAfterTax(df.rows, total, tax_rate_pct),
                   total |-> total]

\* The lower bound 1e-9 of the divisor in line 95.
PriceEpsilon == Dec(1, 9)

\* Lines 77-95: K_E in percent from the chosen method's inputs.
app_ke_percent(w) ==
    IF w.ke_method = "Manual entry" THEN w.ke_manual
    ELSE IF w.ke_method = "CAPM"
    THEN IF w.premium_mode = "Market risk premium"
         THEN RAdd(w.rf, RMul(w.beta, w.mrp))
         ELSE RAdd(w.rf, RMul(w.beta, RSub(w.erm, w.rf)))
    ELSE RAdd(RMul(RDiv(w.D1, RMax(w.P0, PriceEpsilon)), Hundred), w.g_percent)

\* Mutant of or_zero: a missing blend falls back to the manual widget's
\* default rate of 5.5 instead of 0.0.
or_default_rate(x) == IF ~IsNum(x) THEN Dec(55, 1) ELSE x

\* x or 0.0
or_zero(x) == IF ~IsNum(x) \/ x.n = 0 THEN Zero ELSE x

\* Mutant of app_wacc: the top level applies (1 - tax) in both branches.
app_wacc_shield_at_top_level(kd_mode, wE, ke_percent, wD, kd_percent_pre_tax, kd_percent_after_tax_effective, tax_rate) ==
    IF kd_mode = "From tranches"
    THEN RAdd(RMul(wE, RDiv(ke_percent, Hundred)),
              RMul(RMul(wD, RDiv(kd_percent_after_tax_effective, Hundred)),
                   RSub(One, RDiv(tax_rate, Hundred))))
    ELSE RAdd(RMul(wE, RDiv(ke_percent, Hundred)),
              RMul(RMul(wD, RDiv(kd_percent_pre_tax, Hundred)),
                   RSub(One, RDiv(tax_rate, Hundred))))

\* Lines 157-161.
app_wacc(kd_mode, wE, ke_percent, wD, kd_percent_pre_tax, kd_percent_after_tax_effective, tax_rate) ==
    IF kd_mode = "From tranches"
    THEN RAdd(RMul(wE, RDiv(ke_percent, Hundred)),
              RMul(wD, RDiv(kd_percent_after_tax_effective, Hundred)))
    ELSE RAdd(RMul(wE, RDiv(ke_percent, Hundred)),
              RMul(RMul(wD, RDiv(kd_percent_pre_tax, Hundred)),
                   RSub(One, RDiv(tax_rate, Hundred))))

\* Lines 137-161: one run of the script on the sidebar inputs w.
app_run(w) ==
    LET blend == compute_weighted_kd_from_tranches(w.tranche_df, w.tax_rate)
        from_df == w.D_mode = "Build from tranches"
        D == IF from_df THEN blend.total ELSE w.D
        pre_kd_from_tranches == IF from_df THEN blend.pre_tax_kd ELSE None
        post_kd_from_tranches == IF from_df THEN blend.after_tax_kd ELSE None
        kd_percent_pre_tax ==
            IF w.kd_mode = "From tranches" THEN or_zero(pre_kd_from_tranches)
            ELSE w.kd_manual
        kd_percent_after_tax_effective ==
            IF w.kd_mode = "From tranches" THEN or_zero(post_kd_from_tranches)
            ELSE RMul(kd_percent_pre_tax, RSub(One, RDiv(w.tax_rate, Hundred)))
        ke_percent == app_ke_percent(w)
        V == RAdd(w.E, D)
        wE == IF RLt(Zero, V) THEN RDiv(w.E, V) ELSE Zero
        wD == IF RLt(Zero, V) THEN RDiv(D, V) ELSE Zero
    IN  [D |-> D,
         pre_kd_from_tranches |-> pre_kd_from_tranches,
         post_kd_from_tranches |-> post_kd_from_tranches,
         kd_percent_pre_tax |-> kd_percent_pre_tax,
         kd_percent_after_tax_effective |-> kd_percent_after_tax_effective,
         ke_percent |-> ke_percent,
         V |-> V, wE |-> wE, wD |-> wD,
         wacc |-> app_wacc(w.kd_mode, wE, ke_percent, wD, kd_percent_pre_tax,
                           kd_percent_after_tax_effective, w.tax_rate),
         error |-> ""]

---------------------------------------------------------------------------
(* Inputs.                                                                 *)

\* Largest of the small integer equity values tried with each debt value.
MaxSmallEquity == 3

\* Longest tranche table.
MaxTranches == 2

\* (equity_value, debt_value) of the library calls: small structures, among
\* them totals of 160 where value/total is a 4-decimal tie, zero and negative
\* totals, and the structure of the documented example.
Structures ==
    ((0 .. MaxSmallEquity) \X {-1, 0, 157, 159})
        \cup {<<120000, 80000>>, <<120000, 0>>, <<0, 80000>>}

CostsOfEquity == {Dec(10, 2), Dec(10004, 5)}

CostsOfDebt == {Dec(55, 3), Dec(6, 2)}

TaxRates == {Zero, Dec(25, 2)}

NoKwargs ==
    [risk_free_rate |-> None, beta |-> None, market_return |-> None,
     dividend_next |-> None, price_now |-> None, growth_rate |-> None]

\* The keyword arguments calculate_cost_of_equity reads, per method.
EquityInputs ==
    {[equity_method |-> "direct", cost_of_equity |-> ke, kw |-> NoKwargs] :
        ke \in CostsOfEquity}
    \cup
    {[equity_method |-> "capm", cost_of_equity |-> None,
      kw |-> [NoKwargs EXCEPT !.risk_free_rate = Dec(5, 2), !.beta = b,
                              !.market_return = rm]] :
        b \in {Dec(15, 1), Dec(-4, 1)}, rm \in {Dec(11, 2), Dec(4, 2)}}
    \cup
    {[equity_method |-> "gordon", cost_of_equity |-> None,
      kw |-> [NoKwargs EXCEPT !.dividend_next = d1, !.price_now = p0,
                              !.growth_rate = Dec(3, 2)]] :
        d1 \in {Zero, Int2Rat(4)}, p0 \in {Zero, Int2Rat(80)}}
    \cup
    {[equity_method |-> "other", cost_of_equity |-> None, kw |-> NoKwargs]}

MakeArgs(st, eq, kd, t) ==
    [equity_value |-> st[1], debt_value |-> st[2],
     cost_of_equity |-> eq.cost_of_equity, cost_of_debt |-> kd, tax_rate |-> t,
     equity_method |-> eq.equity_method,
     risk_free_rate |-> eq.kw.risk_free_rate, beta |-> eq.kw.beta,
     market_return |-> eq.kw.market_return,
     dividend_next |-> eq.kw.dividend_next, price_now |-> eq.kw.price_now,
     growth_rate |-> eq.kw.growth_rate]

LibArgs ==
    {MakeArgs(st, eq, kd, t) :
        st \in Structures, eq \in EquityInputs, kd \in CostsOfDebt, t \in TaxRates}

NoArgs == MakeArgs(<<0, 0>>, [equity_method |-> "", cost_of_equity |-> None,
                             kw |-> NoKwargs], None, None)

\* Rows of the tranche editor; None / "NA" is a cell left empty.
TrancheRows ==
    {[mv |-> Int2Rat(40), rate |-> Int2Rat(6), shield |-> "True"],
     [mv |-> Int2Rat(60), rate |-> Dec(52, 1), shield |-> "True"],
     [mv |-> Int2Rat(60), rate |-> Dec(52, 1), shield |-> "False"],
     [mv |-> Int2Rat(40), rate |-> Int2Rat(6), shield |-> "NA"],
     [mv |-> None, rate |-> None, shield |-> "NA"],
     [mv |-> Int2Rat(-40), rate |-> Int2Rat(6), shield |-> "True"]}

TrancheTables ==
    UNION {[1 .. k -> TrancheRows] : k \in 0 .. MaxTranches}

\* Debt input (lines 43-65): a single value, or the tranche editor.
DebtInputs ==
    {[D_mode |-> "Single debt value", D |-> d,
      tranche_df |-> [none |-> TRUE, rows |-> <<>>]] :
        d \in {Zero, Int2Rat(80)}}
    \cup
    {[D_mode |-> "Build from tranches", D |-> None,
      tranche_df |-> [none |-> FALSE, rows |-> rows]] :
        rows \in TrancheTables}

NoKe ==
    [ke_method |-> "", ke_manual |-> None, rf |-> None, beta |-> None,
     premium_mode |-> "", mrp |-> None, erm |-> None,
     D1 |-> None, P0 |-> None, g_percent |-> None]

\* Cost of equity input (lines 71-95), within the widgets' ranges.
KeInputs ==
    {[NoKe EXCEPT !.ke_method = "Manual entry", !.ke_manual = Int2Rat(10)],
     [NoKe EXCEPT !.ke_method = "CAPM", !.rf = Int2Rat(3), !.beta = Dec(11, 1),
                  !.premium_mode = "Market risk premium", !.mrp = Int2Rat(5)],
     [NoKe EXCEPT !.ke_method = "CAPM", !.rf = Int2Rat(3), !.beta = Dec(-5, 1),
                  !.premium_mode = "Expected market return", !.erm = Int2Rat(8)],
     [NoKe EXCEPT !.ke_method = "Dividend Growth (Gordon)", !.D1 = Int2Rat(4),
                  !.P0 = Int2Rat(80), !.g_percent = Int2Rat(2)],
     [NoKe EXCEPT !.ke_method = "Dividend Growth (Gordon)", !.D1 = Int2Rat(4),
                  !.P0 = Dec(1, 4), !.g_percent = Int2Rat(2)]}

\* Cost of debt input (lines 98-104).
KdInputs ==
    {[kd_mode |-> "Manual single rate", kd_manual |-> Dec(55, 1)],
     [kd_mode |-> "Manual single rate", kd_manual |-> Zero],
     [kd_mode |-> "From tranches", kd_manual |-> None]}

MakeWidgets(e, debt, t, ke, kd) ==
    [E |-> e, D_mode |-> debt.D_mode, D |-> debt.D, tranche_df |-> debt.tranche_df,
     tax_rate |-> t,
     ke_method |-> ke.ke_method, ke_manual |-> ke.ke_manual, rf |-> ke.rf,
     beta |-> ke.beta, premium_mode |-> ke.premium_mode, mrp |-> ke.mrp,
     erm |-> ke.erm, D1 |-> ke.D1, P0 |-> ke.P0, g_percent |-> ke.g_percent,
     kd_mode |-> kd.kd_mode, kd_manual |-> kd.kd_manual]

WidgetStates ==
    {MakeWidgets(e, debt, t, ke, kd) :
        e \in {Zero, Int2Rat(120)}, debt \in DebtInputs,
        t \in {Zero, Int2Rat(25), Int2Rat(100)}, ke \in KeInputs, kd \in KdInputs}

NoWidgets ==
    MakeWidgets(None, [D_mode |-> "", D |-> None,
                       tranche_df |-> [none |-> TRUE, rows |-> <<>>]],
                None, NoKe, [kd_mode |-> "", kd_manual |-> None])

NoApp ==
    [D |-> None, pre_kd_from_tranches |-> None, post_kd_from_tranches |-> None,
     kd_percent_pre_tax |-> None, kd_percent_after_tax_effective |-> None,
     ke_percent |-> None, V |-> None, wE |-> None, wD |-> None, wacc |-> None,
     error |-> ""]

---------------------------------------------------------------------------
(* The state machine: a caller holds one argument tuple and calls the two  *)
(* library functions on it, or the sidebar holds one input state and the   *)
(* script runs on it.                                                      *)

InitLib ==
    /\ entry = "lib"
    /\ args \in LibArgs
    /\ module_result = ModulePending
    /\ function_result = Pending
    /\ widgets = NoWidgets
    /\ app_pc = "idle"
    /\ app = NoApp

InitApp ==
    /\ entry = "app"
    /\ args = NoArgs
    /\ module_result = ModulePending
    /\ function_result = Pending
    /\ widgets \in WidgetStates
    /\ app_pc = "ready"
    /\ app = NoApp

Init == InitLib \/ InitApp

\* wacc_module.calculate_wacc(equity_value, debt_value, cost_of_equity,
\* cost_of_debt, tax_rate) on five numbers.
ModuleCalculateWacc ==
    /\ entry = "lib"
    /\ module_result.status = "pending"
    /\ IsNum(args.cost_of_equity)
    /\ module_result' = module_calculate_wacc(args.equity_value, args.debt_value,
                            args.cost_of_equity, args.cost_of_debt, args.tax_rate)
    /\ UNCHANGED <<entry, args, function_result, widgets, app_pc, app>>

\* wacc_function.calculate_wacc(**args)
FunctionCalculateWacc ==
    /\ entry = "lib"
    /\ function_result.status = "pending"
    /\ function_result' = function_calculate_wacc(args)
    /\ UNCHANGED <<entry, args, module_result, widgets, app_pc, app>>

\* One run of app.py on the sidebar inputs.
RunApp ==
    /\ entry = "app"
    /\ app_pc = "ready"
    /\ app' = app_run(widgets)
    /\ app_pc' = "done"
    /\ UNCHANGED <<entry, args, module_result, function_result, widgets>>

Next == ModuleCalculateWacc \/ FunctionCalculateWacc \/ RunApp

Spec == Init /\ [][Next]_vars

---------------------------------------------------------------------------
(* Reference values the properties compare the program's results with.     *)

TotalValue == args.equity_value + args.debt_value

LibCalled == entry = "lib" /\ function_result.status # "pending"

ModuleCalled == entry = "lib" /\ module_result.status # "pending"

AppDone == entry = "app" /\ app_pc = "done"

RECURSIVE RSumSeq(_)
RSumSeq(terms) ==
    IF terms = <<>> THEN Zero ELSE RAdd(Head(terms), RSumSeq(Tail(terms)))

\* Market value and rate of a tranche, an empty cell counting as 0, and its
\* tax-shield flag, an empty cell counting as set.
TrancheMv(row) == IF IsNum(row.mv) THEN row.mv ELSE Zero

TrancheRate(row) == IF IsNum(row.rate) THEN row.rate ELSE Zero

TrancheShielded(row) == row.shield # "False"

TranchesTotal(rows) == RSumSeq([i \in 1 .. Len(rows) |-> TrancheMv(rows[i])])

\* (sum of mv_i * rate_i) / (sum of mv_i)
TranchesPreTax(rows) ==
    RDiv(RSumSeq([i \in 1 .. Len(rows) |->
                    RMul(TrancheMv(rows[i]), TrancheRate(rows[i]))]),
         TranchesTotal(rows))

\* (sum of mv_i * rate_i * (100 - tax if shielded, else 100)) / (100 * sum of mv_i)
TranchesAfterTax(rows, tax) ==
    RDiv(RSumSeq([i \in 1 .. Len(rows) |->
                    RMul(RMul(TrancheMv(rows[i]), TrancheRate(rows[i])),
                         IF TrancheShielded(rows[i]) THEN RSub(Hundred, tax)
                         ELSE Hundred)]),
         RMul(Hundred, TranchesTotal(rows)))

Rows == widgets.tranche_df.rows

FromTranches == widgets.kd_mode = "From tranches"

HasBlend ==
    /\ widgets.D_mode = "Build from tranches"
    /\ Rows # <<>>
    /\ RLt(Zero, TranchesTotal(Rows))

\* The cost of equity of a library call, as a decimal.
ExpectedKe ==
    IF args.equity_method = "capm"
    THEN RAdd(args.risk_free_rate,
              RSub(RMul(args.beta, args.market_return),
                   RMul(args.beta, args.risk_free_rate)))
    ELSE IF args.equity_method = "gordon"
    THEN RAdd(RMul(args.dividend_next, Rat(args.price_now.d, args.price_now.n)),
              args.growth_rate)
    ELSE args.cost_of_equity

\* The after-tax cost of debt of a library call, in percent.
DebtCostPercent ==
    RMul(Hundred, RSub(args.cost_of_debt, RMul(args.cost_of_debt, args.tax_rate)))

\* (E * ke + D * kd * (1 - t)) * 100 / (E + D)
ExpectedWaccPercent(ke) ==
    RDiv(RAdd(RMul(Int2Rat(100 * args.equity_value), ke),
              RMul(Int2Rat(args.debt_value), DebtCostPercent)),
         Int2Rat(TotalValue))

ValidStructure ==
    args.equity_value >= 0 /\ args.debt_value >= 0 /\ TotalValue > 0

OneSource ==
    \/ args.equity_value > 0 /\ args.debt_value = 0
    \/ args.equity_value = 0 /\ args.debt_value > 0

OneSourceCostPercent(ke) ==
    IF args.debt_value = 0 THEN RMul(Hundred, ke) ELSE DebtCostPercent

\* Half a unit of the second decimal.
HalfCent == Dec(5, 3)

\* The documented two-tranche example.
ScenarioD ==
    /\ widgets.D_mode = "Build from tranches"
    /\ Rows = <<[mv |-> Int2Rat(40), rate |-> Int2Rat(6), shield |-> "True"],
                [mv |-> Int2Rat(60), rate |-> Dec(52, 1), shield |-> "True"]>>
    /\ widgets.tax_rate = Int2Rat(25)

\* The documented CAPM example.
ScenarioA ==
    /\ args.equity_method = "capm"
    /\ args.risk_free_rate = Dec(5, 2)
    /\ args.market_return = Dec(11, 2)
    /\ args.beta = Dec(15, 1)
    /\ args.equity_value = 120000
    /\ args.debt_value = 80000
    /\ args.cost_of_debt = Dec(55, 3)
    /\ args.tax_rate = Dec(25, 2)

\* The price of the Gordon inputs, not below the epsilon.
ClampedPrice == IF RLe(PriceEpsilon, widgets.P0) THEN widgets.P0 ELSE PriceEpsilon

---------------------------------------------------------------------------
(* C1.  Every WACC entry point, given a total market value of zero, ends   *)
(* in a reported error and produces no WACC value and no weights.          *)
(* The two library functions do; app.py reports nothing and shows weights  *)
(* 0 and a WACC of 0.                                                      *)
C1_ZeroTotalIsReported ==
    /\ (ModuleCalled /\ TotalValue = 0) =>
            /\ module_result.status = "raised"
            /\ ~IsNum(module_result.value.wacc_percent)
            /\ ~IsNum(module_result.value.equity_weight)
            /\ ~IsNum(module_result.value.debt_weight)
    /\ (LibCalled /\ TotalValue = 0) =>
            /\ function_result.status = "raised"
            /\ ~IsNum(function_result.value)
    /\ (AppDone /\ app.V = Zero) =>
            /\ app.error # ""
            /\ ~IsNum(app.wacc)
            /\ ~IsNum(app.wE)
            /\ ~IsNum(app.wD)

---------------------------------------------------------------------------
(* C2.  In app.py the factor (1 - tax_rate) is never applied twice to the  *)
(* cost of debt, in any combination of the debt-value mode and the         *)
(* cost-of-debt mode: from tranches, WACC = wE*Ke + wD*(after-tax          *)
(* effective K_D of the tranches, the shield applied per tranche) with no  *)
(* further factor; with a manual rate, WACC = wE*Ke + wD*K_D*(1 - tax).    *)
C2_TaxShieldAppliedOnce ==
    AppDone =>
        LET shield == RSub(One, RDiv(widgets.tax_rate, Hundred))
            equity == RMul(app.wE, app.ke_percent)
            debt == IF FromTranches
                    THEN IF HasBlend
                         THEN RMul(app.wD, TranchesAfterTax(Rows, widgets.tax_rate))
                         ELSE Zero
                    ELSE RMul(RMul(app.wD, widgets.kd_manual), shield)
            wacc_percent == RMul(app.wacc, Hundred)
        IN  /\ wacc_percent = RAdd(equity, debt)
            /\ (debt # Zero /\ shield # One) =>
                    wacc_percent # RAdd(equity, RMul(debt, shield))

C2_Witness ==
    /\ AppDone
    /\ FromTranches
    /\ HasBlend
    /\ widgets.tax_rate = Int2Rat(25)
    /\ RLt(Zero, widgets.E)
    /\ Len(Rows) = 2
    /\ \A i \in 1 .. 2 : Rows[i].shield = "True"
    /\ RLt(Zero, app.kd_percent_after_tax_effective)
    /\ RLt(Zero, app.wD)

---------------------------------------------------------------------------
(* C3.  For a non-empty tranche table with positive total market value,    *)
(* compute_weighted_kd_from_tranches returns pre-tax K_D = sum of          *)
(* (mv_i/total)*rate_i, after-tax K_D = sum of (mv_i/total)*rate_i*        *)
(* (1 - tax if tranche i is shielded, else 1) and total = sum of mv_i;     *)
(* tranches (40, 6%, shield) and (60, 5.2%, shield) at 25% tax give 5.52%  *)
(* and 4.14%.  (An empty cell counts as the code's default: market value   *)
(* 0, rate 0, shield set.)                                                 *)
C3_TrancheBlend ==
    (AppDone /\ HasBlend) =>
        /\ app.pre_kd_from_tranches = TranchesPreTax(Rows)
        /\ app.post_kd_from_tranches = TranchesAfterTax(Rows, widgets.tax_rate)
        /\ app.D = TranchesTotal(Rows)
        /\ ScenarioD =>
                /\ app.pre_kd_from_tranches = Dec(552, 2)
                /\ app.post_kd_from_tranches = Dec(414, 2)

C3_Witness ==
    /\ AppDone
    /\ ScenarioD
    /\ app.pre_kd_from_tranches = Dec(552, 2)
    /\ app.post_kd_from_tranches = Dec(414, 2)
    /\ app.D = Int2Rat(100)

---------------------------------------------------------------------------
(* C4.  With positive total market value, wacc_function.calculate_wacc     *)
(* with equity_method="capm" returns wE*(rf + beta*(rm - rf)) +            *)
(* wD*cost_of_debt*(1 - tax_rate) in percent rounded to 2 decimals, also   *)
(* for a negative beta or premium; rf=0.05, rm=0.11, beta=1.5, E=120000,   *)
(* D=80000, cost_of_debt=0.055, tax_rate=0.25 gives 10.05.                 *)
C4_CapmWacc ==
    (LibCalled /\ args.equity_method = "capm" /\ TotalValue > 0) =>
        /\ function_result.status = "returned"
        /\ function_result.value = round(ExpectedWaccPercent(ExpectedKe), 2, 0)
        /\ ScenarioA => function_result.value = Dec(1005, 2)

C4_Witness ==
    /\ LibCalled
    /\ ScenarioA
    /\ function_result.status = "returned"
    /\ function_result.value = Dec(1005, 2)

---------------------------------------------------------------------------
(* C5.  For every valid capital structure (values >= 0, total > 0) the     *)
(* reported weights sum to 1: equity_weight + debt_weight of               *)
(* wacc_module.calculate_wacc, and wE + wD of app.py.                      *)
(* Fails in wacc_module for equity 1, debt 159: 0.0063 + 0.9938.           *)
C5_WeightsSumToOne ==
    /\ (ModuleCalled /\ ValidStructure) =>
            /\ module_result.status = "returned"
            /\ RAdd(module_result.value.equity_weight,
                    module_result.value.debt_weight) = One
    /\ (AppDone /\ RLt(Zero, app.V)) => RAdd(app.wE, app.wD) = One

---------------------------------------------------------------------------
---------------------------------------------------------------------------
---------------------------------------------------------------------------
(* C8.  A Gordon-growth cost of equity at price 0 never yields a cost that *)
(* flows into the WACC: wacc_function's calculate_cost_of_equity raises    *)
(* and calculate_wacc returns no value; app.py divides by the price        *)
(* clamped from below to a strictly positive epsilon.                      *)
C8_GordonZeroPrice ==
    /\ (LibCalled /\ args.equity_method = "gordon" /\ args.price_now = Zero) =>
            /\ function_result.status = "raised"
            /\ function_result.error = "ZeroDivisionError"
            /\ ~IsNum(function_result.value)
    /\ (AppDone /\ widgets.ke_method = "Dividend Growth (Gordon)") =>
            /\ RLt(Zero, ClampedPrice)
            /\ IsNum(app.ke_percent)
            /\ RMul(RSub(app.ke_percent, widgets.g_percent), ClampedPrice)
                    = RMul(Hundred, widgets.D1)

C8_Witness ==
    /\ LibCalled
    /\ args.equity_method = "gordon"
    /\ args.price_now = Zero
    /\ args.dividend_next = Int2Rat(4)
    /\ TotalValue > 0
    /\ function_result.status = "raised"

---------------------------------------------------------------------------
(* C9.  In app.py, when the cost of debt is "From tranches" but there is   *)
(* no usable blend (single debt value, or an empty table, or total market  *)
(* value <= 0), the pre-tax and after-tax costs of debt are 0 and the WACC *)
(* is wE*Ke whatever D and the tax rate are; with a single debt value      *)
(* D > 0 the debt weight stays positive.                                   *)
C9_NoBlendDebtCostsZero ==
    (AppDone /\ FromTranches /\ ~HasBlend) =>
        /\ app.kd_percent_pre_tax = Zero
        /\ app.kd_percent_after_tax_effective = Zero
        /\ RMul(app.wacc, Hundred) = RMul(app.wE, app.ke_percent)
        /\ (widgets.D_mode = "Single debt value" /\ RLt(Zero, widgets.D)) =>
                /\ RLt(Zero, app.wD)
                /\ app.wD = RDiv(widgets.D, RAdd(widgets.E, widgets.D))

C9_Witness ==
    /\ AppDone
    /\ FromTranches
    /\ widgets.D_mode = "Single debt value"
    /\ widgets.D = Int2Rat(80)
    /\ widgets.E = Int2Rat(120)
    /\ widgets.tax_rate = Int2Rat(25)
    /\ app.wD = Dec(4, 1)
    /\ app.kd_percent_after_tax_effective = Zero
    /\ RMul(app.wacc, Hundred) = RMul(Dec(6, 1), app.ke_percent)

---------------------------------------------------------------------------
(* C10.  The two library variants agree: with equity_method="direct",      *)
(* wacc_function.calculate_wacc returns the wacc_percent of                *)
(* wacc_module.calculate_wacc when equity_value + debt_value # 0, and both *)
(* raise when it is 0.                                                     *)
C10_VariantsAgree ==
    (ModuleCalled /\ LibCalled /\ args.equity_method = "direct") =>
        IF TotalValue # 0
        THEN /\ module_result.status = "returned"
             /\ function_result.status = "returned"
             /\ function_result.value = module_result.value.wacc_percent
        ELSE /\ module_result.status = "raised"
             /\ function_result.status = "raised"

C10_Witness ==
    /\ ModuleCalled
    /\ LibCalled
    /\ args.equity_method = "direct"
    /\ args.equity_value = 1
    /\ args.debt_value = 159
    /\ args.cost_of_equity = Dec(10004, 5)
    /\ function_result.status = "returned"
    /\ function_result.value = module_result.value.wacc_percent

=============================================================================
